---- MODULE Spec2Model ----
(***************************************************************************)
(* Model of the two Streamlit programs of scooter7/skilledtrades:          *)
(*   src/skilledtradesapp.py  (program "skilledtradesapp", Jina agent)     *)
(*   src/skilledtrades.py     (program "skilledtrades", Firecrawl + CSE)   *)
(* One press of "Fetch Data" runs the three needs (labor outlook,          *)
(* institutions, jobs).  Every call to an external provider is split into  *)
(* the step that issues it and the step in which it returns or raises.     *)
(*                                                                         *)
(* Strings the code only passes around are TLA+ strings.  Strings the code *)
(* transforms are sequences: a trade label is its sequence of characters   *)
(* (str.lower works on it), an agent's text is a sequence of tokens        *)
(* ("ws" whitespace, "txt" other text, "NO_DATA_FOUND" the marker), so     *)
(* str.strip and the `in` test work on it.  Python's None is the string    *)
(* None; a dict is a function whose DOMAIN is the set of its keys.         *)
(***************************************************************************)
EXTENDS Integers, Sequences, FiniteSets, TLC

VARIABLES
    program,        \* which of the two source files runs
    selected_trade, \* st.selectbox("Select a Trade", ...)
    selected_state, \* st.selectbox("Select a State", ...), or an argument
    pc,             \* position of the run
    calls,          \* provider calls issued so far, with their outcome
    response1,      \* response1.content of the first outlook call
    response2,      \* response2.content of the fallback outlook call
    bls_content,    \* value returned by the outlook fetch
    schools,        \* data.get("results", []) of the College Scorecard
    table_rows,     \* rows built so far by the refinement loop
    df_colleges,    \* value returned by the institutions fetch
    job_results,    \* value returned by the jobs fetch
    returned,       \* the needs whose fetch function has returned
    diagnostics,    \* st.error / st.warning messages shown
    exception       \* the exception that ended the run, or NoException

vars == <<program, selected_trade, selected_state, pc, calls, response1,
          response2, bls_content, schools, table_rows, df_colleges, job_results,
          returned, diagnostics, exception>>

----------------------------------------------------------------------------
(* Bounds and small values                                                 *)

\* Longest list of schools the College Scorecard answers with in the model
\* (the code asks for per_page = 100).
MaxResults == 2

None == "None"
NA == "N/A"
NoException == "no exception"

Programs == {"skilledtradesapp", "skilledtrades"}
Needs == {"outlook", "institutions", "jobs"}

----------------------------------------------------------------------------
(* Static tables                                                           *)

state_abbrev_map ==
    [s \in {"Alabama", "Alaska", "Arizona", "Arkansas", "California",
            "Colorado", "Connecticut", "Delaware", "Florida", "Georgia",
            "Hawaii", "Idaho", "Illinois", "Indiana", "Iowa", "Kansas",
            "Kentucky", "Louisiana", "Maine", "Maryland", "Massachusetts",
            "Michigan", "Minnesota", "Mississippi", "Missouri", "Montana",
            "Nebraska", "Nevada", "New Hampshire", "New Jersey",
            "New Mexico", "New York", "North Carolina", "North Dakota",
            "Ohio", "Oklahoma", "Oregon", "Pennsylvania", "Rhode Island",
            "South Carolina", "South Dakota", "Tennessee", "Texas", "Utah",
            "Vermont", "Virginia", "Washington", "West Virginia",
            "Wisconsin", "Wyoming"} |->
       CASE s = "Alabama" -> "AL" [] s = "Alaska" -> "AK"
         [] s = "Arizona" -> "AZ" [] s = "Arkansas" -> "AR"
         [] s = "California" -> "CA" [] s = "Colorado" -> "CO"
         [] s = "Connecticut" -> "CT" [] s = "Delaware" -> "DE"
         [] s = "Florida" -> "FL" [] s = "Georgia" -> "GA"
         [] s = "Hawaii" -> "HI" [] s = "Idaho" -> "ID"
         [] s = "Illinois" -> "IL" [] s = "Indiana" -> "IN"
         [] s = "Iowa" -> "IA" [] s = "Kansas" -> "KS"
         [] s = "Kentucky" -> "KY" [] s = "Louisiana" -> "LA"
         [] s = "Maine" -> "ME" [] s = "Maryland" -> "MD"
         [] s = "Massachusetts" -> "MA" [] s = "Michigan" -> "MI"
         [] s = "Minnesota" -> "MN" [] s = "Mississippi" -> "MS"
         [] s = "Missouri" -> "MO" [] s = "Montana" -> "MT"
         [] s = "Nebraska" -> "NE" [] s = "Nevada" -> "NV"
         [] s = "New Hampshire" -> "NH" [] s = "New Jersey" -> "NJ"
         [] s = "New Mexico" -> "NM" [] s = "New York" -> "NY"
         [] s = "North Carolina" -> "NC" [] s = "North Dakota" -> "ND"
         [] s = "Ohio" -> "OH" [] s = "Oklahoma" -> "OK"
         [] s = "Oregon" -> "OR" [] s = "Pennsylvania" -> "PA"
         [] s = "Rhode Island" -> "RI" [] s = "South Carolina" -> "SC"
         [] s = "South Dakota" -> "SD" [] s = "Tennessee" -> "TN"
         [] s = "Texas" -> "TX" [] s = "Utah" -> "UT"
         [] s = "Vermont" -> "VT" [] s = "Virginia" -> "VA"
         [] s = "Washington" -> "WA" [] s = "West Virginia" -> "WV"
         [] s = "Wisconsin" -> "WI" [] s = "Wyoming" -> "WY"]

STATES == DOMAIN state_abbrev_map

TRADES ==
    { <<"M","a","n","u","f","a","c","t","u","r","i","n","g">>,
      <<"A","u","t","o","m","o","t","i","v","e">>,
      <<"C","o","n","s","t","r","u","c","t","i","o","n">>,
      <<"E","n","e","r","g","y">>,
      <<"H","e","a","l","t","h","c","a","r","e">>,
      <<"I","n","f","o","r","m","a","t","i","o","n"," ",
        "T","e","c","h","n","o","l","o","g","y">> }

\* The state names a run is started with: a key of the table (what the
\* select box offers) and, for the fetch functions called with a name that
\* is no key of it, another string.
InputStates == {"Texas", "Puerto Rico"}

----------------------------------------------------------------------------
(* Python built-ins                                                        *)

\* dict.get(key, default)
Get(d, key, default) == IF key \in DOMAIN d THEN d[key] ELSE default

\* truth value of a string or None (`if not abbrev`, `if x.get("title")`)
TruthyStr(v) == v # None /\ v # ""

\* truth value of a list (`if not raw_colleges`, `if not schools`)
TruthyList(v) == v # <<>>

LowerChar(c) ==
    CASE c = "A" -> "a" [] c = "C" -> "c" [] c = "E" -> "e"
      [] c = "H" -> "h" [] c = "I" -> "i" [] c = "M" -> "m"
      [] c = "T" -> "t" [] OTHER -> c

\* str.lower()
Lower(s) == [i \in 1..Len(s) |-> LowerChar(s[i])]

RECURSIVE LStrip(_)
LStrip(s) == IF s # <<>> /\ Head(s) = "ws" THEN LStrip(Tail(s)) ELSE s

RECURSIVE RStrip(_)
RStrip(s) ==
    IF s # <<>> /\ s[Len(s)] = "ws" THEN RStrip(SubSeq(s, 1, Len(s) - 1))
    ELSE s

\* str.strip()
Strip(s) == RStrip(LStrip(s))

\* "NO_DATA_FOUND" in content
ContainsMarker(content) == \E i \in 1..Len(content) : content[i] = "NO_DATA_FOUND"

RECURSIVE Join(_)
\* ", ".join(titles)
Join(titles) ==
    IF Len(titles) <= 1 THEN titles
    ELSE <<Head(titles), ", ">> \o Join(Tail(titles))

----------------------------------------------------------------------------
(* What the providers can answer                                           *)

\* response.content of an agent asked for prose
AgentContents ==
    { <<>>, <<"txt">>, <<"ws", "txt", "ws">>, <<"NO_DATA_FOUND">>,
      <<"ws", "NO_DATA_FOUND", "ws">>, <<"txt", "NO_DATA_FOUND">> }

\* agent.run(prompt) returns a response or raises
AgentOutcomes ==
    {[kind |-> "raise"]} \cup {[kind |-> "content", content |-> c] : c \in AgentContents}

\* One hit of the College Scorecard: school.name, in-state tuition and the
\* list of 4-digit CIP programs, any of them absent or null.
LoneStarWelding ==
    ("school.name" :> "Lone Star College")
    @@ ("latest.cost.tuition.in_state" :> "10000")
    @@ ("latest.programs.cip_4_digit" :> << ("title" :> "Welding") >>)

LoneStarMachining ==
    ("school.name" :> "Lone Star College")
    @@ ("latest.cost.tuition.in_state" :> "12000")
    @@ ("latest.programs.cip_4_digit" :>
            << ("title" :> "Machining"), ("title" :> None), ("title" :> "Welding") >>)

SparseHit == ("latest.cost.tuition.in_state" :> None)

ScorecardHits == {LoneStarWelding, LoneStarMachining, SparseHit}

RECURSIVE SeqsUpTo(_, _)
SeqsUpTo(S, n) ==
    IF n = 0 THEN {<<>>}
    ELSE LET shorter == SeqsUpTo(S, n - 1)
         IN  shorter \cup {Append(q, x) : q \in shorter, x \in S}

\* resp.json() of the College Scorecard: an object with or without "results"
ScorecardPayloads ==
    {<<>>} \cup {("results" :> r) : r \in SeqsUpTo(ScorecardHits, MaxResults)}

\* requests.get(url, params) raises, or returns a status and a body
ScorecardOutcomes ==
    {[kind |-> "raise"], [kind |-> "status", status_code |-> "429", text |-> "rate limited"],
     [kind |-> "notjson"]}
    \cup {[kind |-> "json", data |-> d] : d \in ScorecardPayloads}

\* The keys the refinement prompt of each program asks for
DetailKeys(prog) ==
    IF prog = "skilledtradesapp"
    THEN <<"degree_type", "program_duration", "offers_microcredentials", "mentions_ai">>
    ELSE <<"degree type", "program duration", "offers microcredentials",
           "mentions AI in program description">>

\* response.content of an agent asked for JSON: text that is no JSON, a JSON
\* array, an object with every key, an object with a null and absent keys.
RefineContents(prog) ==
    LET k == DetailKeys(prog)
    IN  { [json |-> "invalid"], [json |-> "array"],
          [json |-> "object",
           object |-> (k[1] :> "Associate") @@ (k[2] :> "2 years")
                      @@ (k[3] :> "Yes") @@ (k[4] :> "No")],
          [json |-> "object", object |-> (k[1] :> "Certificate") @@ (k[2] :> None)] }

RefineOutcomes(prog) ==
    {[kind |-> "raise"]} \cup {[kind |-> "content", content |-> c] : c \in RefineContents(prog)}

\* One item of the Google Custom Search answer
IndeedItem == ("title" :> "Welder") @@ ("link" :> "https://www.indeed.com/viewjob")

SearchOutcomes ==
    {[kind |-> "raise"], [kind |-> "status", status_code |-> "403", text |-> "forbidden"],
     [kind |-> "notjson"], [kind |-> "json", data |-> <<>>],
     [kind |-> "json", data |-> ("items" :> <<IndeedItem>>)]}

----------------------------------------------------------------------------
(* The log of provider calls                                               *)

Call(need, provider, intent, keyword, region, subject) ==
    [need |-> need, provider |-> provider, intent |-> intent,
     keyword |-> keyword, region |-> region, subject |-> subject,
     outcome |-> "pending"]

\* the outstanding call returns ("ok", "http_error") or raises ("raise")
Settle(log, outcome) == [log EXCEPT ![Len(log)].outcome = outcome]

Outstanding == {i \in 1..Len(calls) : calls[i].outcome = "pending"}

CallsOf(need) == SelectSeq(calls, LAMBDA c : c.need = need)

----------------------------------------------------------------------------
(* Pure parts of the programs                                              *)

\* Variant of OutlookAttempts: the two prompts issued in the other order.
OutlookAttemptsSwapped(prog) ==
    IF prog = "skilledtradesapp" THEN <<"national_fallback", "state_search">>
    ELSE <<"combined">>

\* The queries the outlook need can issue, in order.  skilledtradesapp asks
\* for the state first and falls back to one national + state-workforce
\* query; skilledtrades asks one combined question.
OutlookAttempts(prog) ==
    IF prog = "skilledtradesapp" THEN <<"state_search", "national_fallback">>
    ELSE <<"combined">>

\* Variant of NeedsFallback: the fallback is taken whatever the answer was.
NeedsFallbackAlways(content1) == TRUE

\* if "NO_DATA_FOUND" in content1
NeedsFallback(content1) == ContainsMarker(content1)

\* Variant of trade_keyword: the label is sent as selected.
trade_keyword_as_selected(trade) == trade

\* trade_keyword = trade.lower()
trade_keyword(trade) == Lower(trade)

\* Variant of Abbrev: a name that is no key is passed on as it is.
AbbrevOrName(state) == Get(state_abbrev_map, state, state)

\* abbrev = state_abbrev_map.get(state)
Abbrev(state) == Get(state_abbrev_map, state, None)

\* Variant of raw_college: the tuition is read under a key the request
\* never asked for.
raw_college_wrong_key(item) ==
    LET cip_entries == Get(item, "latest.programs.cip_4_digit", <<>>)
        titled == SelectSeq(cip_entries, LAMBDA x : TruthyStr(Get(x, "title", None)))
    IN  [name |-> Get(item, "school.name", NA),
         tuition_in_state |-> Get(item, "latest.cost.tuition.out_of_state", NA),
         cip_titles |-> [i \in 1..Len(titled) |-> Get(titled[i], "title", NA)]]

\* one element of `colleges` in fetch_cip_colleges
raw_college(item) ==
    LET cip_entries == Get(item, "latest.programs.cip_4_digit", <<>>)
        titled == SelectSeq(cip_entries, LAMBDA x : TruthyStr(Get(x, "title", None)))
    IN  [name |-> Get(item, "school.name", NA),
         tuition_in_state |-> Get(item, "latest.cost.tuition.in_state", NA),
         cip_titles |-> [i \in 1..Len(titled) |-> Get(titled[i], "title", NA)]]

\* the dict of "N/A" both programs fall back to
NADetails(prog) == [k \in {DetailKeys(prog)[i] : i \in 1..4} |-> NA]

\* refine_college_details, after agent.run returned: json.loads and the four
\* details.get under one bare except (a JSON array has no .get)
refine_college_details(content) ==
    IF content.json = "object"
    THEN [k \in {DetailKeys("skilledtradesapp")[i] : i \in 1..4} |->
              Get(content.object, k, NA)]
    ELSE NADetails("skilledtradesapp")

\* the row build_college_dataframe appends
CollegeRow(c, details) ==
    ("College/University" :> c.name)
    @@ ("Tuition Cost" :> c.tuition_in_state)
    @@ ("CIP Titles" :> IF TruthyList(c.cip_titles) THEN Join(c.cip_titles) ELSE <<NA>>)
    @@ ("Degree Type" :> details["degree_type"])
    @@ ("Program Duration" :> details["program_duration"])
    @@ ("Offers Microcredentials" :> details["offers_microcredentials"])
    @@ ("Mentions AI" :> details["mentions_ai"])

\* details_json of fetch_education_programs_table: agent.run and json.loads
\* are inside the try, so a raise or text that is no JSON gives the "N/A"
\* dict; whatever json.loads returns otherwise is kept
details_json(outcome) ==
    IF outcome.kind = "content" /\ outcome.content.json = "object"
    THEN outcome.content.object
    ELSE NADetails("skilledtrades")

\* the row fetch_education_programs_table appends
EducationRow(school, details) ==
    ("College/University" :> Get(school, "school.name", NA))
    @@ ("Degree Type" :> Get(details, "degree type", NA))
    @@ ("Tuition Cost" :> Get(school, "latest.cost.tuition.in_state", NA))
    @@ ("Program Duration" :> Get(details, "program duration", NA))
    @@ ("Offers Microcredentials" :> Get(details, "offers microcredentials", NA))
    @@ ("Mentions AI in Program Description" :>
            Get(details, "mentions AI in program description", NA))

\* What one turn of the refinement loop ends in: the exception it lets
\* through (NoException if none) and the row it appends.
RefineTurn(prog, school, outcome) ==
    IF prog = "skilledtradesapp"
    THEN IF outcome.kind = "raise"
         THEN [exception |-> "agent.run", row |-> <<>>]
         ELSE [exception |-> NoException,
               row |-> CollegeRow(raw_college(school),
                                  refine_college_details(outcome.content))]
    ELSE IF outcome.kind = "content" /\ outcome.content.json = "array"
         THEN [exception |-> "AttributeError", row |-> <<>>]
         ELSE [exception |-> NoException,
               row |-> EducationRow(school, details_json(outcome))]

\* the name the refinement prompt is built with
college_name(prog, school) ==
    IF prog = "skilledtradesapp" THEN raw_college(school).name
    ELSE Get(school, "school.name", NA)

\* Variant of AfterOutlook: the jobs block placed before the colleges block.
AfterOutlookJobs == "jobs"

\* The order of the three `with st.spinner` blocks
AfterOutlook == "colleges"

AfterColleges == "jobs"

AfterJobs == "done"

----------------------------------------------------------------------------
(* The run                                                                 *)

Init ==
    /\ program \in Programs
    /\ selected_trade \in TRADES
    /\ selected_state \in InputStates
    /\ pc = "idle"
    /\ calls = <<>>
    /\ response1 = <<>>
    /\ response2 = <<>>
    /\ bls_content = <<>>
    /\ schools = <<>>
    /\ table_rows = <<>>
    /\ df_colleges = <<>>
    /\ job_results = <<>>
    /\ returned = {}
    /\ diagnostics = <<>>
    /\ exception = NoException

inputs == <<program, selected_trade, selected_state>>

outlook_locals == <<response1, response2>>

\* an exception nobody catches ends the script run
Raise(e, outcome) ==
    /\ pc' = "raised"
    /\ exception' = e
    /\ calls' = Settle(calls, outcome)

\* The button is pressed: the first outlook query goes out.
FetchData ==
    /\ pc = "idle"
    /\ pc' = "bls_state"
    /\ calls' = Append(calls, Call("outlook", "agent", OutlookAttempts(program)[1],
                                   selected_trade, selected_state, ""))
    /\ UNCHANGED <<inputs, outlook_locals, bls_content, schools, table_rows,
                   df_colleges, job_results, returned, diagnostics, exception>>

\* The first outlook query returns.
BlsStateReturn ==
    /\ pc = "bls_state"
    /\ \E o \in AgentOutcomes :
         IF o.kind = "raise"
         THEN /\ Raise("agent.run", "raise")
              /\ UNCHANGED <<response1, bls_content, returned>>
         ELSE /\ response1' = o.content
              /\ UNCHANGED exception
              /\ IF program = "skilledtradesapp"
                 THEN LET content1 == Strip(o.content)
                      IN  IF NeedsFallback(content1)
                          THEN /\ pc' = "bls_fallback"
                               /\ calls' = Append(Settle(calls, "ok"),
                                      Call("outlook", "agent", OutlookAttempts(program)[2],
                                           selected_trade, selected_state, ""))
                               /\ UNCHANGED <<bls_content, returned>>
                          ELSE /\ pc' = AfterOutlook
                               /\ calls' = Settle(calls, "ok")
                               /\ bls_content' = content1
                               /\ returned' = returned \cup {"outlook"}
                 ELSE /\ pc' = AfterOutlook
                      /\ calls' = Settle(calls, "ok")
                      /\ bls_content' = o.content
                      /\ returned' = returned \cup {"outlook"}
    /\ UNCHANGED <<inputs, response2, schools, table_rows, df_colleges, job_results,
                   diagnostics>>

\* The fallback outlook query returns.
BlsFallbackReturn ==
    /\ pc = "bls_fallback"
    /\ \E o \in AgentOutcomes :
         IF o.kind = "raise"
         THEN /\ Raise("agent.run", "raise")
              /\ UNCHANGED <<response2, bls_content, returned>>
         ELSE /\ pc' = AfterOutlook
              /\ calls' = Settle(calls, "ok")
              /\ response2' = o.content
              /\ bls_content' = response2'
              /\ returned' = returned \cup {"outlook"}
              /\ UNCHANGED exception
    /\ UNCHANGED <<inputs, response1, schools, table_rows, df_colleges, job_results,
                   diagnostics>>

\* The institutions fetch starts: the state is looked up and, if it has an
\* abbreviation, the College Scorecard is asked.
BuildCollegeDataframe ==
    /\ pc = "colleges"
    /\ IF ~TruthyStr(Abbrev(selected_state))
       THEN /\ df_colleges' = <<>>
            /\ returned' = returned \cup {"institutions"}
            /\ pc' = AfterColleges
            /\ diagnostics' = IF program = "skilledtrades"
                              THEN Append(diagnostics, "Unable to map state")
                              ELSE diagnostics
            /\ UNCHANGED calls
       ELSE /\ calls' = Append(calls, Call("institutions", "scorecard", "cip_title_icontains",
                                           trade_keyword(selected_trade),
                                           Abbrev(selected_state), ""))
            /\ pc' = "scorecard"
            /\ UNCHANGED <<df_colleges, returned, diagnostics>>
    /\ UNCHANGED <<inputs, outlook_locals, bls_content, schools, table_rows, job_results,
                   exception>>

\* the institutions fetch returns an empty table
ReturnNoColleges(outcome, message) ==
    /\ df_colleges' = <<>>
    /\ returned' = returned \cup {"institutions"}
    /\ pc' = AfterColleges
    /\ calls' = Settle(calls, outcome)
    /\ diagnostics' = IF program = "skilledtrades"
                      THEN Append(diagnostics, message)
                      ELSE diagnostics
    /\ UNCHANGED <<schools, table_rows, exception>>

\* The College Scorecard request returns.
ScorecardReturn ==
    /\ pc = "scorecard"
    /\ \E o \in ScorecardOutcomes :
         CASE o.kind = "raise" ->
                /\ Raise("requests.get", "raise")
                /\ UNCHANGED <<schools, table_rows, df_colleges, returned, diagnostics>>
           [] o.kind = "status" ->
                ReturnNoColleges("http_error", "Error fetching college data")
           [] o.kind = "notjson" ->
                /\ Raise("response.json", "malformed")
                /\ UNCHANGED <<schools, table_rows, df_colleges, returned, diagnostics>>
           [] o.kind = "json" ->
                LET results == Get(o.data, "results", <<>>)
                IN  IF ~TruthyList(results)
                    THEN ReturnNoColleges("ok", "No colleges found")
                    ELSE /\ schools' = results
                         /\ table_rows' = <<>>
                         /\ pc' = "refine"
                         /\ calls' = Append(Settle(calls, "ok"),
                                Call("institutions", "agent", "program_details",
                                     selected_trade, selected_state,
                                     college_name(program, results[1])))
                         /\ UNCHANGED <<df_colleges, returned, diagnostics, exception>>
    /\ UNCHANGED <<inputs, outlook_locals, bls_content, job_results>>

\* The refinement query for the next school returns.
RefineReturn ==
    /\ pc = "refine"
    /\ \E o \in RefineOutcomes(program) :
         LET i == Len(table_rows) + 1
             turn == RefineTurn(program, schools[i], o)
             settled == Settle(calls, IF o.kind = "raise" THEN "raise" ELSE "ok")
         IN  IF turn.exception # NoException
             THEN /\ pc' = "raised"
                  /\ exception' = turn.exception
                  /\ calls' = settled
                  /\ UNCHANGED <<table_rows, df_colleges, returned>>
             ELSE /\ table_rows' = Append(table_rows, turn.row)
                  /\ UNCHANGED exception
                  /\ IF i < Len(schools)
                     THEN /\ calls' = Append(settled,
                                 Call("institutions", "agent", "program_details",
                                      selected_trade, selected_state,
                                      college_name(program, schools[i + 1])))
                          /\ pc' = "refine"
                          /\ UNCHANGED <<df_colleges, returned>>
                     ELSE /\ calls' = settled
                          /\ df_colleges' = table_rows'
                          /\ returned' = returned \cup {"institutions"}
                          /\ pc' = AfterColleges
    /\ UNCHANGED <<inputs, outlook_locals, bls_content, schools, job_results, diagnostics>>

\* The jobs fetch starts: its one query goes out.
FetchJobListings ==
    /\ pc = "jobs"
    /\ pc' = "jobs_wait"
    /\ calls' = Append(calls,
           IF program = "skilledtradesapp"
           THEN Call("jobs", "agent", "indeed_listings", selected_trade, selected_state, "")
           ELSE Call("jobs", "customsearch", "site:indeed.com", selected_trade,
                     selected_state, ""))
    /\ UNCHANGED <<inputs, outlook_locals, bls_content, schools, table_rows, df_colleges,
                   job_results, returned, diagnostics, exception>>

\* fetch_job_listings returns response.content
JobListingsReturn ==
    /\ pc = "jobs_wait"
    /\ program = "skilledtradesapp"
    /\ \E o \in AgentOutcomes :
         IF o.kind = "raise"
         THEN /\ Raise("agent.run", "raise")
              /\ UNCHANGED <<job_results, returned>>
         ELSE /\ job_results' = o.content
              /\ returned' = returned \cup {"jobs"}
              /\ calls' = Settle(calls, "ok")
              /\ pc' = AfterJobs
              /\ UNCHANGED exception
    /\ UNCHANGED <<inputs, outlook_locals, bls_content, schools, table_rows, df_colleges,
                   diagnostics>>

\* fetch_job_listings_indeed returns the items or a list holding the error
JobListingsIndeedReturn ==
    /\ pc = "jobs_wait"
    /\ program = "skilledtrades"
    /\ \E o \in SearchOutcomes :
         CASE o.kind = "raise" ->
                /\ Raise("requests.get", "raise")
                /\ UNCHANGED <<job_results, returned>>
           [] o.kind = "notjson" ->
                /\ Raise("response.json", "malformed")
                /\ UNCHANGED <<job_results, returned>>
           [] o.kind = "status" ->
                /\ job_results' = << ("error" :> o.status_code) @@ ("message" :> o.text) >>
                /\ returned' = returned \cup {"jobs"}
                /\ calls' = Settle(calls, "http_error")
                /\ pc' = AfterJobs
                /\ UNCHANGED exception
           [] o.kind = "json" ->
                /\ job_results' = Get(o.data, "items", <<>>)
                /\ returned' = returned \cup {"jobs"}
                /\ calls' = Settle(calls, "ok")
                /\ pc' = AfterJobs
                /\ UNCHANGED exception
    /\ UNCHANGED <<inputs, outlook_locals, bls_content, schools, table_rows, df_colleges,
                   diagnostics>>

Next ==
    \/ FetchData
    \/ BlsStateReturn
    \/ BlsFallbackReturn
    \/ BuildCollegeDataframe
    \/ ScorecardReturn
    \/ RefineReturn
    \/ FetchJobListings
    \/ JobListingsReturn
    \/ JobListingsIndeedReturn

Spec == Init /\ [][Next]_vars

----------------------------------------------------------------------------
(* Vocabulary of the properties                                            *)

\* the run was started from the select boxes
UiRun == selected_state \in STATES

\* a response that carries data: some text and no marker
ProducedData(content) == Strip(content) # <<>> /\ ~ContainsMarker(content)

\* a response that carries none: empty, or holding the marker
NoData(content) == Strip(content) = <<>> \/ ContainsMarker(content)

OutlookIntents ==
    [i \in 1..Len(CallsOf("outlook")) |-> CallsOf("outlook")[i].intent]

ScorecardKeywords ==
    LET q == SelectSeq(calls, LAMBDA c : c.provider = "scorecard")
    IN  [i \in 1..Len(q) |-> q[i].keyword]

\* the lower-cased labels, written out
LowercaseLabel(trade) ==
    CASE trade = <<"M","a","n","u","f","a","c","t","u","r","i","n","g">> ->
            <<"m","a","n","u","f","a","c","t","u","r","i","n","g">>
      [] trade = <<"A","u","t","o","m","o","t","i","v","e">> ->
            <<"a","u","t","o","m","o","t","i","v","e">>
      [] trade = <<"C","o","n","s","t","r","u","c","t","i","o","n">> ->
            <<"c","o","n","s","t","r","u","c","t","i","o","n">>
      [] trade = <<"E","n","e","r","g","y">> -> <<"e","n","e","r","g","y">>
      [] trade = <<"H","e","a","l","t","h","c","a","r","e">> ->
            <<"h","e","a","l","t","h","c","a","r","e">>
      [] trade = <<"I","n","f","o","r","m","a","t","i","o","n"," ",
                   "T","e","c","h","n","o","l","o","g","y">> ->
            <<"i","n","f","o","r","m","a","t","i","o","n"," ",
              "t","e","c","h","n","o","l","o","g","y">>

NeedRank(need) == CASE need = "outlook" -> 1 [] need = "institutions" -> 2 [] need = "jobs" -> 3

\* the columns of a row that hold one value each
ScalarColumns(prog) ==
    IF prog = "skilledtradesapp"
    THEN {"College/University", "Tuition Cost", "Degree Type", "Program Duration",
          "Offers Microcredentials", "Mentions AI"}
    ELSE {"College/University", "Degree Type", "Tuition Cost", "Program Duration",
          "Offers Microcredentials", "Mentions AI in Program Description"}

Columns(prog) ==
    IF prog = "skilledtradesapp" THEN ScalarColumns(prog) \cup {"CIP Titles"}
    ELSE ScalarColumns(prog)

----------------------------------------------------------------------------
(* C1 .. C10                                                               *)

\* C1: short-circuit.  Once the state-level outlook call produced data, no
\* further outlook call is ever issued, and the value the outlook fetch
\* returns is that response (up to the surrounding whitespace strip removes).
C1_ShortCircuit ==
    ProducedData(response1) =>
        /\ Len(CallsOf("outlook")) = 1
        /\ pc # "bls_fallback"
        /\ "outlook" \in returned => Strip(bls_content) = Strip(response1)

C1_Witness ==
    /\ pc = "done"
    /\ program = "skilledtradesapp"
    /\ response1 = <<"ws", "txt", "ws">>
    /\ bls_content = <<"txt">>
    /\ Len(CallsOf("outlook")) = 1

\* C2 as claimed: a full fall-through (the first attempt gave no data and the
\* cascade's last attempt gave the data returned) takes exactly the three
\* calls state-scoped, regional-workforce, national-fallback, in that order.
C2_ThreeAttempts ==
    (/\ UiRun
     /\ "outlook" \in returned
     /\ NeedsFallback(Strip(response1))
     /\ Len(CallsOf("outlook")) > 1
     /\ ProducedData(bls_content))
    => /\ Len(CallsOf("outlook")) = 3
       /\ OutlookIntents = <<"state_search", "regional_workforce", "national_fallback">>

\* C2 amended: fetch_bls_data resolves the outlook over at most two ordered
\* attempts, the state-scoped query and then one national + state-workforce
\* fallback query.  When the first response holds NO_DATA_FOUND the agent is
\* invoked exactly twice, in that order, and the output is the second
\* response's content unchanged; otherwise it is invoked once.
\* fetch_bls_projections issues one combined query and returns its content.
C2_TwoAttempts ==
    /\ Len(CallsOf("outlook")) <= 2
    /\ "outlook" \in returned =>
          IF program = "skilledtradesapp"
          THEN IF ContainsMarker(response1)
               THEN /\ OutlookIntents = <<"state_search", "national_fallback">>
                    /\ bls_content = response2
               ELSE OutlookIntents = <<"state_search">>
          ELSE /\ OutlookIntents = <<"combined">>
               /\ bls_content = response1

C2_Witness ==
    /\ pc = "done"
    /\ program = "skilledtradesapp"
    /\ ContainsMarker(response1)
    /\ Len(CallsOf("outlook")) = 2
    /\ ProducedData(response2)
    /\ bls_content = response2

\* C3: exhaustion.  When every outlook attempt of fetch_bls_data yields no
\* data (an empty response or one holding the marker), the outlook returned
\* is empty: a no-data response is never returned as the result.
C3_Exhaustion ==
    (/\ UiRun
     /\ program = "skilledtradesapp"
     /\ "outlook" \in returned
     /\ NoData(response1)
     /\ Len(CallsOf("outlook")) = 2 => NoData(response2))
    => Strip(bls_content) = <<>>

\* C4: provider boundary.  No provider failure is ever raised to the caller,
\* and a failed job-listing call returns an empty sequence.
C4_ProviderBoundary ==
    UiRun =>
        /\ pc # "raised"
        /\ \A i \in 1..Len(calls) :
              (calls[i].need = "jobs" /\ calls[i].outcome = "http_error" /\ "jobs" \in returned)
              => job_results = <<>>

\* C5: need independence.  A run that has ended has attempted all three
\* needs and each of them has returned its collection.
C5_NeedIndependence ==
    UiRun => (pc \in {"done", "raised"} => returned = Needs)

C7_Completeness ==
    UiRun =>
        /\ \A i \in 1..Len(table_rows) :
              /\ DOMAIN table_rows[i] = Columns(program)
              /\ \A k \in ScalarColumns(program) : table_rows[i][k] # None
        /\ exception # "AttributeError"

\* C8: keyword expansion.  The keywords the College Scorecard is queried
\* with are the one-element sequence holding the selected trade's label in
\* lower case: one query per keyword, none before the state is looked up.
C8_KeywordExpansion ==
    /\ Len(ScorecardKeywords) <= 1
    /\ \A i \in 1..Len(ScorecardKeywords) :
          ScorecardKeywords[i] = LowercaseLabel(selected_trade)
    /\ (UiRun /\ (pc \in {"scorecard", "refine"} \/ "institutions" \in returned))
          => ScorecardKeywords = <<LowercaseLabel(selected_trade)>>

C8_Witness ==
    /\ pc = "done"
    /\ selected_trade = <<"I","n","f","o","r","m","a","t","i","o","n"," ",
                          "T","e","c","h","n","o","l","o","g","y">>
    /\ Len(ScorecardKeywords) = 1
    /\ Len(df_colleges) = 2

\* C9: sequential execution.  At most one provider call is outstanding, a
\* call is issued only after every earlier call has come back, the calls
\* are in the order outlook, institutions, jobs, and a need's call is issued
\* only after every earlier need has returned.
C9_Sequential ==
    /\ Cardinality(Outstanding) <= 1
    /\ \A i \in 1..Len(calls) : i < Len(calls) => calls[i].outcome # "pending"
    /\ \A i, j \in 1..Len(calls) :
          i < j => NeedRank(calls[i].need) <= NeedRank(calls[j].need)
    /\ \A i \in 1..Len(calls) :
          \A n \in Needs : NeedRank(n) < NeedRank(calls[i].need) => n \in returned

C9_Witness ==
    /\ pc = "jobs_wait"
    /\ Cardinality(Outstanding) = 1
    /\ Len(CallsOf("outlook")) = 2
    /\ Len(CallsOf("institutions")) = 3
    /\ Len(CallsOf("jobs")) = 1

\* C10: unknown region.  With a state name that is no key of the table the
\* institutions fetch issues no provider call and returns the empty table,
\* and the run goes on to the jobs need.
C10_UnknownRegion ==
    selected_state \notin STATES =>
        /\ CallsOf("institutions") = <<>>
        /\ pc \notin {"scorecard", "refine"}
        /\ "institutions" \in returned =>
              /\ df_colleges = <<>>
              /\ pc = "jobs" \/ CallsOf("jobs") # <<>>

C10_Witness ==
    /\ selected_state \notin STATES
    /\ "institutions" \in returned
    /\ pc = "done"
    /\ CallsOf("institutions") = <<>>
    /\ Len(CallsOf("jobs")) = 1

----------------------------------------------------------------------------
(* C11                                                                     *)

\* the refinement calls issued so far
RefinementCalls ==
    SelectSeq(calls, LAMBDA c : c.need = "institutions" /\ c.provider = "agent")

\* the four columns a refinement answer fills
DetailColumns(prog) ==
    IF prog = "skilledtradesapp"
    THEN {"Degree Type", "Program Duration", "Offers Microcredentials", "Mentions AI"}
    ELSE {"Degree Type", "Program Duration", "Offers Microcredentials",
          "Mentions AI in Program Description"}

\* C11: per-institution refinement.  The refinement calls are issued one per
\* provider record, in the provider's order; once the refinement loop is
\* left, k records have had exactly k calls and the institutions fetch has
\* returned a table of exactly k rows; and a refinement call that failed
\* has its row in the table, with the four detail columns set to "N/A".
C11_PerInstitutionRefinement ==
    UiRun =>
        /\ Len(RefinementCalls) <= Len(schools)
        /\ \A i \in 1..Len(RefinementCalls) :
              RefinementCalls[i].subject = Get(schools[i], "school.name", NA)
        /\ (schools # <<>> /\ pc # "refine") =>
              /\ Len(RefinementCalls) = Len(schools)
              /\ "institutions" \in returned
              /\ Len(df_colleges) = Len(schools)
        /\ \A i \in 1..Len(RefinementCalls) :
              RefinementCalls[i].outcome = "raise" =>
                  /\ i <= Len(table_rows)
                  /\ \A k \in DetailColumns(program) : table_rows[i][k] = NA

====
